---- MODULE Spec2Model ----
(***************************************************************************)
(* Model of paperwork/frontend/util/config.py: the composite settings      *)
(* (_ScanTimes, _PaperworkScannerCalibration, _PaperworkSize,              *)
(* _PaperworkRecent) over a key/value configuration store, and the scanner *)
(* initialisation get_scanner / _get_scanner.                              *)
(*                                                                         *)
(* A Python str is modelled as the sequence of its code points, a bytes    *)
(* object as the sequence of its byte values.  The store maps              *)
(* <<section, option>> to a str, or to Absent when configparser would      *)
(* raise NoSectionError / NoOptionError.                                   *)
(***************************************************************************)
EXTENDS Integers, Sequences, FiniteSets, TLC

VARIABLES
    config,       \* the configuration store (configparser object)
    op,           \* name of the last operation performed
    exc,          \* exception that operation propagated, or NoError
    max_length,   \* _PaperworkRecent.max_length
    recent,       \* _PaperworkRecent.value
    hist,         \* arguments of the push() calls made so far (SpecPush)
    written,      \* [done, value]: the list the last _PaperworkRecent.update wrote
    size,         \* _PaperworkSize.value
    calibration,  \* _PaperworkScannerCalibration.value
    scan_times,   \* _ScanTimes.values
    set_keys,     \* keys _ScanTimes.update has passed to config.set
    scanner_devid,       \* config['scanner_devid'].value
    scanner_resolution,  \* config['scanner_resolution'].value
    scanner_source,      \* config['scanner_source'].value ("" for None)
    preferred_sources,   \* argument of get_scanner (<< >> for None)
    pc,           \* position inside get_scanner / _get_scanner
    attempts,     \* the devid of each _get_scanner call made, in order
    dev,          \* the device _get_scanner has opened
    resolution,   \* local variable `resolution` of _get_scanner
    steps,        \* <<sub-step, outcome>> of the current _get_scanner call
    first_exc,    \* `exc` bound by the except clause of get_scanner
    enumerated,   \* "no", "ok" or "failed": outcome of pyinsane2.get_devices()
    devices,      \* names pyinsane2.get_devices() returned, in order
    result        \* what get_scanner returned or raised

scannerVars == <<scanner_devid, scanner_resolution, scanner_source,
                 preferred_sources, pc, attempts, dev, resolution, steps,
                 first_exc, enumerated, devices, result>>

vars == <<config, op, exc, max_length, recent, hist, written, size,
          calibration, scan_times, set_keys, scannerVars>>

recentVars == <<max_length, recent, hist, written>>
sizeVars == <<size>>
calibrationVars == <<calibration>>
scanTimesVars == <<scan_times, set_keys>>

----------------------------------------------------------------------------
(* Common helpers *)

NoError == "none"

\* What config.get yields for a missing section or option (the code treats
\* both exceptions alike).  No str contains a negative code point.
Absent == <<-1>>

Get(cfg, section, option) ==
    IF <<section, option>> \in DOMAIN cfg THEN cfg[<<section, option>>] ELSE Absent

Set(cfg, section, option, v) ==
    [k \in DOMAIN cfg \cup {<<section, option>>} |->
        IF k = <<section, option>> THEN v ELSE cfg[k]]

Min(a, b) == IF a < b THEN a ELSE b

\* str.isspace() of one code point (below 0x10000)
IsSpace(c) ==
    \/ c \in {9, 10, 11, 12, 13, 28, 29, 30, 31, 32, 133, 160, 5760}
    \/ (c >= 8192 /\ c <= 8202)
    \/ c \in {8232, 8233, 8239, 8287, 12288}

\* str.strip(): whitespace removed at both ends

RECURSIVE lstrip(_)
lstrip(s) ==
    IF s # << >> /\ IsSpace(Head(s)) THEN lstrip(Tail(s)) ELSE s

RECURSIVE rstrip(_)
rstrip(s) ==
    IF s # << >> /\ IsSpace(s[Len(s)]) THEN rstrip(SubSeq(s, 1, Len(s) - 1)) ELSE s

strip(s) == rstrip(lstrip(s))

----------------------------------------------------------------------------
(* str.encode("utf-8") / bytes.decode("utf-8"), code points below 0x10000 *)

Utf8Char(c) ==
    IF c < 128 THEN <<c>>
    ELSE IF c < 2048 THEN <<192 + (c \div 64), 128 + (c % 64)>>
    ELSE <<224 + (c \div 4096), 128 + ((c \div 64) % 64), 128 + (c % 64)>>

RECURSIVE utf8_encode(_)
utf8_encode(s) ==
    IF s = << >> THEN << >> ELSE Utf8Char(Head(s)) \o utf8_encode(Tail(s))

IsCont(b) == b >= 128 /\ b < 192

\* [ok |-> FALSE] stands for UnicodeDecodeError
RECURSIVE utf8_decode_from(_, _)
utf8_decode_from(b, acc) ==
    IF b = << >> THEN [ok |-> TRUE, val |-> acc]
    ELSE IF b[1] < 128 THEN utf8_decode_from(Tail(b), Append(acc, b[1]))
    ELSE IF b[1] >= 194 /\ b[1] < 224 /\ Len(b) >= 2 /\ IsCont(b[2])
        THEN utf8_decode_from(SubSeq(b, 3, Len(b)),
                              Append(acc, (b[1] - 192) * 64 + (b[2] - 128)))
    ELSE IF b[1] >= 224 /\ b[1] < 240 /\ Len(b) >= 3 /\ IsCont(b[2]) /\ IsCont(b[3])
            /\ (b[1] - 224) * 4096 + (b[2] - 128) * 64 + (b[3] - 128) >= 2048
            /\ ~((b[1] - 224) * 4096 + (b[2] - 128) * 64 + (b[3] - 128) \in 55296..57343)
        THEN utf8_decode_from(SubSeq(b, 4, Len(b)),
                 Append(acc, (b[1] - 224) * 4096 + (b[2] - 128) * 64 + (b[3] - 128)))
    ELSE [ok |-> FALSE, val |-> acc]

utf8_decode(b) == utf8_decode_from(b, << >>)

----------------------------------------------------------------------------
(* base64.encodebytes / base64.decodebytes *)

B64Char(i) ==
    IF i < 26 THEN 65 + i
    ELSE IF i < 52 THEN 71 + i
    ELSE IF i < 62 THEN i - 4
    ELSE IF i = 62 THEN 43 ELSE 47

\* value of a base64 digit, 64 for any other character
B64Index(c) ==
    IF c >= 65 /\ c <= 90 THEN c - 65
    ELSE IF c >= 97 /\ c <= 122 THEN c - 71
    ELSE IF c >= 48 /\ c <= 57 THEN c + 4
    ELSE IF c = 43 THEN 62
    ELSE IF c = 47 THEN 63 ELSE 64

\* binascii.b2a_base64 without its trailing newline
RECURSIVE b2a_base64(_)
b2a_base64(b) ==
    IF b = << >> THEN << >>
    ELSE IF Len(b) = 1 THEN
        <<B64Char(b[1] \div 4), B64Char((b[1] % 4) * 16), 61, 61>>
    ELSE IF Len(b) = 2 THEN
        <<B64Char(b[1] \div 4), B64Char((b[1] % 4) * 16 + (b[2] \div 16)),
          B64Char((b[2] % 16) * 4), 61>>
    ELSE
        <<B64Char(b[1] \div 4), B64Char((b[1] % 4) * 16 + (b[2] \div 16)),
          B64Char((b[2] % 16) * 4 + (b[3] \div 64)), B64Char(b[3] % 64)>>
        \o b2a_base64(SubSeq(b, 4, Len(b)))

\* base64.encodebytes: one newline-terminated line per 57 input bytes
RECURSIVE encodebytes(_)
encodebytes(b) ==
    IF b = << >> THEN << >>
    ELSE b2a_base64(SubSeq(b, 1, Min(57, Len(b)))) \o <<10>>
         \o encodebytes(SubSeq(b, Min(57, Len(b)) + 1, Len(b)))

\* binascii.a2b_base64 (non-strict): characters outside the alphabet are
\* skipped, a complete pad sequence ends the parse, an incomplete quad is
\* binascii.Error ([ok |-> FALSE]).
RECURSIVE a2b_base64(_, _, _, _, _)
a2b_base64(s, quad_pos, pads, leftchar, out) ==
    IF s = << >> THEN [ok |-> quad_pos = 0, val |-> out]
    ELSE IF Head(s) = 61 THEN
        IF quad_pos >= 2 /\ quad_pos + pads + 1 >= 4
        THEN [ok |-> TRUE, val |-> out]
        ELSE a2b_base64(Tail(s), quad_pos, pads + 1, leftchar, out)
    ELSE IF B64Index(Head(s)) = 64 THEN
        a2b_base64(Tail(s), quad_pos, pads, leftchar, out)
    ELSE IF quad_pos = 0 THEN
        a2b_base64(Tail(s), 1, 0, B64Index(Head(s)), out)
    ELSE IF quad_pos = 1 THEN
        a2b_base64(Tail(s), 2, 0, B64Index(Head(s)) % 16,
                   Append(out, leftchar * 4 + (B64Index(Head(s)) \div 16)))
    ELSE IF quad_pos = 2 THEN
        a2b_base64(Tail(s), 3, 0, B64Index(Head(s)) % 4,
                   Append(out, leftchar * 16 + (B64Index(Head(s)) \div 4)))
    ELSE
        a2b_base64(Tail(s), 0, 0, 0, Append(out, leftchar * 64 + B64Index(Head(s))))

decodebytes(s) == a2b_base64(s, 0, 0, 0, << >>)

----------------------------------------------------------------------------
(* Bounds and input domains *)

\* largest max_length a Recent List is constructed with
MaxLength == 2

\* number of indexed keys base_0 .. base_(NumIdx-1) the store may hold
NumIdx == MaxLength + 1

\* number of push() calls followed in SpecPush
MaxPush == MaxLength + 2

\* strings handed to push(): "", "a", "é", " a ", "a b"
Values == {<< >>, <<97>>, <<233>>, <<32, 97, 32>>, <<97, 32, 98>>}

\* push() arguments of SpecPush: Values and "b", "ab"
PushValues == Values \cup {<<98>>, <<97, 98>>}

\* bytes.strip(): ASCII whitespace removed at both ends
IsByteSpace(b) == b \in {9, 10, 11, 12, 13, 32}

RECURSIVE bytes_lstrip(_)
bytes_lstrip(b) ==
    IF b # << >> /\ IsByteSpace(Head(b)) THEN bytes_lstrip(Tail(b)) ELSE b

RECURSIVE bytes_rstrip(_)
bytes_rstrip(b) ==
    IF b # << >> /\ IsByteSpace(b[Len(b)])
    THEN bytes_rstrip(SubSeq(b, 1, Len(b) - 1)) ELSE b

\* the text update() of a Recent List stores for entry v
StoredForm(v) ==
    utf8_decode(bytes_rstrip(bytes_lstrip(encodebytes(utf8_encode(v))))).val

\* store contents under an indexed key: what update() writes for each of
\* Values, the truncated text "YQ" (incorrect padding), "6Q==" (the single
\* byte 0xE9, which is not UTF-8), or nothing
RecentStored == {StoredForm(v) : v \in Values} \cup {<<89, 81>>, <<54, 81, 61, 61>>, Absent}

----------------------------------------------------------------------------
(* _PaperworkRecent("recent", "documents", max_length) *)

RecentKey(idx) == <<"recent", "documents_" \o ToString(idx)>>

RecentKeys == {RecentKey(i) : i \in 0..(NumIdx - 1)}

\* push() without the membership test of line 231
push_keeping_duplicates(value_list, value, maxlen) ==
    LET v == strip(value) IN
    IF v = << >> THEN value_list
    ELSE IF Len(value_list) + 1 > maxlen THEN Tail(Append(value_list, v))
    ELSE Append(value_list, v)

\* push() evicting with pop() (the newest entry) instead of pop(0)
push_evicting_newest(value_list, value, maxlen) ==
    LET v == strip(value) IN
    IF v = << >> THEN value_list
    ELSE IF \E i \in 1..Len(value_list) : value_list[i] = v THEN value_list
    ELSE IF Len(value_list) + 1 > maxlen THEN value_list
    ELSE Append(value_list, v)

\* the list after push(value) on list `value_list`
push(value_list, value, maxlen) ==
    LET v == strip(value) IN
    IF v = << >> THEN value_list
    ELSE IF \E i \in 1..Len(value_list) : value_list[i] = v THEN value_list
    ELSE IF Len(value_list) + 1 > maxlen THEN Tail(Append(value_list, v))
    ELSE Append(value_list, v)

\* the while-loop of load(): [value |-> list reached, exc |-> how it ended]
RECURSIVE load_from(_, _, _, _)
load_from(cfg, idx, value_list, maxlen) ==
    LET v == Get(cfg, RecentKey(idx)[1], RecentKey(idx)[2]) IN
    IF v = Absent THEN [value |-> value_list, exc |-> NoError]
    ELSE LET b == decodebytes(utf8_encode(v)) IN
         IF ~b.ok THEN [value |-> value_list, exc |-> "binascii.Error"]
         ELSE LET s == utf8_decode(b.val) IN
              IF ~s.ok THEN [value |-> value_list, exc |-> "UnicodeDecodeError"]
              ELSE load_from(cfg, idx + 1, push(value_list, s.val, maxlen), maxlen)

recent_load(cfg, maxlen) == load_from(cfg, 0, << >>, maxlen)

\* the store after update(): entry i is written at index i-1
RECURSIVE update_from(_, _, _)
update_from(cfg, value_list, i) ==
    IF i > Len(value_list) THEN cfg
    ELSE update_from(Set(cfg, RecentKey(i - 1)[1], RecentKey(i - 1)[2],
                         StoredForm(value_list[i])),
                     value_list, i + 1)

recent_update(cfg, value_list) == update_from(cfg, value_list, 1)

RecentPush(v) ==
    /\ recent' = push(recent, v, max_length)
    /\ op' = "recent.push"
    /\ exc' = NoError
    /\ UNCHANGED <<config, max_length, written, sizeVars, calibrationVars, scanTimesVars,
                   scannerVars>>

RecentLoad ==
    /\ recent' = recent_load(config, max_length).value
    /\ exc' = recent_load(config, max_length).exc
    /\ op' = "recent.load"
    /\ UNCHANGED <<config, max_length, hist, written, sizeVars, calibrationVars,
                   scanTimesVars, scannerVars>>

RecentUpdate ==
    /\ config' = recent_update(config, recent)
    /\ written' = [done |-> TRUE, value |-> recent]
    /\ op' = "recent.update"
    /\ exc' = NoError
    /\ UNCHANGED <<max_length, recent, hist, sizeVars, calibrationVars, scanTimesVars,
                   scannerVars>>

NoRecentKeys == [k \in RecentKeys |-> Absent]

NoExc == [type |-> "none", attempt |-> 0, at |-> "none"]

NoDev == [name |-> << >>, options |-> {}, reported |-> 0]

NoResult == [kind |-> "none", dev |-> << >>, resolution |-> 0, exc |-> NoExc]

\* no get_scanner call is in progress
ScannerIdle ==
    /\ pc = "idle"
    /\ preferred_sources = << >>
    /\ attempts = << >>
    /\ dev = NoDev
    /\ resolution = 0
    /\ steps = << >>
    /\ first_exc = NoExc
    /\ enumerated = "no"
    /\ devices = << >>
    /\ result = NoResult

\* the settings as constructed by load_config(), for the specifications that
\* do not exercise them
ConstructedScanner ==
    /\ scanner_devid = << >>
    /\ scanner_resolution = 300
    /\ scanner_source = ""
    /\ ScannerIdle
ConstructedSize == size = <<1024, 768>>
ConstructedCalibration == calibration = << >>
ConstructedScanTimes == scan_times = << >> /\ set_keys = {}
ConstructedRecent ==
    /\ max_length = 3
    /\ recent = << >>
    /\ hist = << >>
    /\ written = [done |-> FALSE, value |-> << >>]

InitRecent ==
    /\ config \in [RecentKeys -> RecentStored]
    /\ max_length \in 1..MaxLength
    /\ recent = << >>
    /\ hist = << >>
    /\ written = [done |-> FALSE, value |-> << >>]
    /\ op = "init"
    /\ exc = NoError
    /\ ConstructedSize /\ ConstructedCalibration /\ ConstructedScanTimes
    /\ ConstructedScanner

NextRecent ==
    \/ \E v \in Values : RecentPush(v) /\ UNCHANGED hist
    \/ RecentLoad
    \/ RecentUpdate

SpecRecent == InitRecent /\ [][NextRecent]_vars

InitPush ==
    /\ config = NoRecentKeys
    /\ max_length \in 1..MaxLength
    /\ recent = << >>
    /\ hist = << >>
    /\ written = [done |-> FALSE, value |-> << >>]
    /\ op = "init"
    /\ exc = NoError
    /\ ConstructedSize /\ ConstructedCalibration /\ ConstructedScanTimes
    /\ ConstructedScanner

NextPush ==
    \E v \in PushValues :
        /\ Len(hist) < MaxPush
        /\ RecentPush(v)
        /\ hist' = Append(hist, v)

SpecPush == InitPush /\ [][NextPush]_vars

----------------------------------------------------------------------------
(* int(str), float(str), str(int), str(float) *)

IsDigit(c) == c >= 48 /\ c <= 57

\* digits with single underscores between them (the body of an int literal)
RECURSIVE IsDigitBody(_, _)
IsDigitBody(s, after_digit) ==
    IF s = << >> THEN after_digit
    ELSE IF IsDigit(Head(s)) THEN IsDigitBody(Tail(s), TRUE)
    ELSE IF Head(s) = 95 /\ after_digit THEN IsDigitBody(Tail(s), FALSE)
    ELSE FALSE

RECURSIVE DigitsValue(_, _)
DigitsValue(s, acc) ==
    IF s = << >> THEN acc
    ELSE IF Head(s) = 95 THEN DigitsValue(Tail(s), acc)
    ELSE DigitsValue(Tail(s), acc * 10 + (Head(s) - 48))

\* int(s): [ok |-> FALSE] stands for ValueError
ParseInt(s) ==
    LET t == strip(s)
        signed == t # << >> /\ Head(t) \in {43, 45}
        body == IF signed THEN Tail(t) ELSE t
    IN  IF IsDigitBody(body, FALSE)
        THEN [ok |-> TRUE,
              val |-> IF signed /\ Head(t) = 45 THEN 0 - DigitsValue(body, 0)
                      ELSE DigitsValue(body, 0)]
        ELSE [ok |-> FALSE, val |-> 0]

RECURSIVE NatToStr(_)
NatToStr(n) ==
    IF n < 10 THEN <<48 + n>> ELSE Append(NatToStr(n \div 10), 48 + (n % 10))

\* str(n) of an int
IntToStr(n) == IF n < 0 THEN <<45>> \o NatToStr(0 - n) ELSE NatToStr(n)

\* A float is modelled by its number of tenths (12.5 is 125): the scan times
\* of the model have one decimal.  str(x) of such a float:
FloatToStr(x) ==
    IF x < 0 THEN <<45>> \o NatToStr((0 - x) \div 10) \o <<46>> \o NatToStr((0 - x) % 10)
    ELSE NatToStr(x \div 10) \o <<46>> \o NatToStr(x % 10)

IndexOfDot(s) ==
    IF \E i \in 1..Len(s) : s[i] = 46
    THEN CHOOSE i \in 1..Len(s) : s[i] = 46 /\ \A j \in 1..(i - 1) : s[j] # 46
    ELSE 0

\* float(s) for decimal notation with at most one decimal: [ok |-> FALSE]
\* stands for ValueError
ParseFloat(s) ==
    LET t == strip(s)
        signed == t # << >> /\ Head(t) \in {43, 45}
        body == IF signed THEN Tail(t) ELSE t
        dot == IndexOfDot(body)
        ipart == IF dot = 0 THEN body ELSE SubSeq(body, 1, dot - 1)
        fpart == IF dot = 0 THEN << >> ELSE SubSeq(body, dot + 1, Len(body))
        wellformed ==
            /\ ipart # << >> \/ fpart # << >>
            /\ ipart = << >> \/ IsDigitBody(ipart, FALSE)
            /\ fpart = << >> \/ (Len(fpart) = 1 /\ IsDigit(fpart[1]))
        tenths == DigitsValue(ipart, 0) * 10 + DigitsValue(fpart, 0)
    IN  IF wellformed
        THEN [ok |-> TRUE,
              val |-> IF signed /\ Head(t) = 45 THEN 0 - tenths ELSE tenths]
        ELSE [ok |-> FALSE, val |-> 0]

\* the text "abc", which neither int() nor float() accepts
NotANumber == <<97, 98, 99>>

----------------------------------------------------------------------------
(* _PaperworkSize("GUI", "main_win_size") *)

default_size == <<1024, 768>>

min_size == <<400, 300>>

\* load(): [value |-> self.value afterwards, exc |-> what propagated]
size_load(cfg, value) ==
    LET w == Get(cfg, "GUI", "main_win_size_w")
        h == Get(cfg, "GUI", "main_win_size_h")
    IN  IF w = Absent THEN [value |-> default_size, exc |-> NoError]
        ELSE IF ~ParseInt(w).ok THEN [value |-> value, exc |-> "ValueError"]
        ELSE IF h = Absent THEN [value |-> default_size, exc |-> NoError]
        ELSE IF ~ParseInt(h).ok THEN [value |-> value, exc |-> "ValueError"]
        ELSE [value |-> <<IF ParseInt(w).val < min_size[1] THEN min_size[1]
                          ELSE ParseInt(w).val,
                          IF ParseInt(h).val < min_size[2] THEN min_size[2]
                          ELSE ParseInt(h).val>>,
              exc |-> NoError]

size_update(cfg, value) ==
    Set(Set(cfg, "GUI", "main_win_size_w", IntToStr(value[1])),
        "GUI", "main_win_size_h", IntToStr(value[2]))

\* widths and heights the window is resized to, and that a store may hold
Dimensions == {200, 350, 1280}

SizeStored == {IntToStr(n) : n \in Dimensions} \cup {NotANumber, Absent}

SizeKeys == {<<"GUI", "main_win_size_w">>, <<"GUI", "main_win_size_h">>}

SizeLoad ==
    /\ size' = size_load(config, size).value
    /\ exc' = size_load(config, size).exc
    /\ op' = "size.load"
    /\ UNCHANGED <<config, recentVars, calibrationVars, scanTimesVars, scannerVars>>

SizeUpdate ==
    /\ config' = size_update(config, size)
    /\ op' = "size.update"
    /\ exc' = NoError
    /\ UNCHANGED <<size, recentVars, calibrationVars, scanTimesVars, scannerVars>>

\* the application assigns the setting's value (the window was resized)
SizeAssign(w, h) ==
    /\ size' = <<w, h>>
    /\ op' = "size.assign"
    /\ exc' = NoError
    /\ UNCHANGED <<config, recentVars, calibrationVars, scanTimesVars, scannerVars>>

InitSize ==
    /\ config \in [SizeKeys -> SizeStored]
    /\ size = default_size
    /\ op = "init"
    /\ exc = NoError
    /\ ConstructedRecent /\ ConstructedCalibration /\ ConstructedScanTimes
    /\ ConstructedScanner

NextSize ==
    \/ SizeLoad
    \/ SizeUpdate
    \/ \E w, h \in Dimensions : SizeAssign(w, h)

SpecSize == InitSize /\ [][NextSize]_vars

----------------------------------------------------------------------------
(* _PaperworkScannerCalibration("Scanner") *)

DEFAULT_CALIBRATION_RESOLUTION == 200

\* largest calibration coordinate of the model
MaxCoord == 1

\* the value None of a calibration record
None == << >>

\* the coordinate options in the order load() reads them
CoordOptions ==
    <<"Calibration_Pt_A_X", "Calibration_Pt_A_Y",
      "Calibration_Pt_B_X", "Calibration_Pt_B_Y">>

\* how reading the coordinates from option i on ends: "absent" at the first
\* missing option (NoOptionError / NoSectionError), "invalid" at the first
\* one int() rejects (ValueError), "ok" when all are read
RECURSIVE read_coords(_, _)
read_coords(cfg, i) ==
    IF i > Len(CoordOptions) THEN "ok"
    ELSE IF Get(cfg, "Scanner", CoordOptions[i]) = Absent THEN "absent"
    ELSE IF ~ParseInt(Get(cfg, "Scanner", CoordOptions[i])).ok THEN "invalid"
    ELSE read_coords(cfg, i + 1)

Coord(cfg, i) == ParseInt(Get(cfg, "Scanner", CoordOptions[i])).val

\* the points exchanged as a whole when A is right of B
normalized_swapping_points(pt_a_x, pt_a_y, pt_b_x, pt_b_y) ==
    IF pt_a_x > pt_b_x THEN <<<<pt_b_x, pt_b_y>>, <<pt_a_x, pt_a_y>> >>
    ELSE <<<<pt_a_x, pt_a_y>>, <<pt_b_x, pt_b_y>> >>

\* the swaps of lines 97-100
normalized(pt_a_x, pt_a_y, pt_b_x, pt_b_y) ==
    <<<<IF pt_a_x > pt_b_x THEN pt_b_x ELSE pt_a_x,
        IF pt_a_y > pt_b_y THEN pt_b_y ELSE pt_a_y>>,
      <<IF pt_a_x > pt_b_x THEN pt_a_x ELSE pt_b_x,
        IF pt_a_y > pt_b_y THEN pt_a_y ELSE pt_b_y>> >>

\* load(): [value |-> self.value afterwards, exc |-> what propagated]
calibration_load(cfg, value) ==
    LET r == Get(cfg, "Scanner", "Calibration_Resolution") IN
    IF read_coords(cfg, 1) = "absent" THEN [value |-> None, exc |-> NoError]
    ELSE IF read_coords(cfg, 1) = "invalid" THEN [value |-> value, exc |-> "ValueError"]
    ELSE IF r # Absent /\ ~ParseInt(r).ok THEN [value |-> value, exc |-> "ValueError"]
    ELSE [value |-> <<IF r = Absent THEN DEFAULT_CALIBRATION_RESOLUTION
                      ELSE ParseInt(r).val,
                      normalized(Coord(cfg, 1), Coord(cfg, 2), Coord(cfg, 3), Coord(cfg, 4))>>,
          exc |-> NoError]

calibration_update(cfg, value) ==
    IF value = None THEN cfg
    ELSE Set(Set(Set(Set(Set(cfg,
            "Scanner", "Calibration_Resolution", IntToStr(value[1])),
            "Scanner", "Calibration_Pt_A_X", IntToStr(value[2][1][1])),
            "Scanner", "Calibration_Pt_A_Y", IntToStr(value[2][1][2])),
            "Scanner", "Calibration_Pt_B_X", IntToStr(value[2][2][1])),
            "Scanner", "Calibration_Pt_B_Y", IntToStr(value[2][2][2]))

CoordKeys == {<<"Scanner", CoordOptions[i]>> : i \in 1..Len(CoordOptions)}

ResolutionKey == <<"Scanner", "Calibration_Resolution">>

CoordStored == {IntToStr(n) : n \in 0..MaxCoord} \cup {NotANumber, Absent}

\* the resolutions a calibration was made at
CalibrationResolutions == {150, 300}

ResolutionStored == {IntToStr(n) : n \in CalibrationResolutions} \cup {NotANumber, Absent}

\* records the application assigns after a calibration scan
CalibrationAssigned ==
    {<<r, <<<<a, a>>, <<b, b>>>> >> : r \in {300}, a \in 0..MaxCoord, b \in {MaxCoord}}
    \cup {None}

CalibrationLoad ==
    /\ calibration' = calibration_load(config, calibration).value
    /\ exc' = calibration_load(config, calibration).exc
    /\ op' = "calibration.load"
    /\ UNCHANGED <<config, recentVars, sizeVars, scanTimesVars, scannerVars>>

CalibrationUpdate ==
    /\ config' = calibration_update(config, calibration)
    /\ op' = "calibration.update"
    /\ exc' = NoError
    /\ UNCHANGED <<calibration, recentVars, sizeVars, scanTimesVars, scannerVars>>

CalibrationAssign(v) ==
    /\ calibration' = v
    /\ op' = "calibration.assign"
    /\ exc' = NoError
    /\ UNCHANGED <<config, recentVars, sizeVars, scanTimesVars, scannerVars>>

InitCalibration ==
    /\ config \in [CoordKeys \cup {ResolutionKey} -> CoordStored \cup ResolutionStored]
    /\ \A k \in CoordKeys : config[k] \in CoordStored
    /\ config[ResolutionKey] \in ResolutionStored
    /\ calibration = None
    /\ op = "init"
    /\ exc = NoError
    /\ ConstructedRecent /\ ConstructedSize /\ ConstructedScanTimes
    /\ ConstructedScanner

NextCalibration ==
    \/ CalibrationLoad
    \/ CalibrationUpdate
    \/ \E v \in CalibrationAssigned : CalibrationAssign(v)

SpecCalibration == InitCalibration /\ [][NextCalibration]_vars

----------------------------------------------------------------------------
(* _ScanTimes *)

\* __ITEM_2_CONFIG, in the order load() iterates it
ITEM_2_CONFIG ==
    <<[item |-> "calibration", section |-> "Scanner", option |-> "ScanTimeCalibration"],
      [item |-> "normal", section |-> "Scanner", option |-> "ScanTime"],
      [item |-> "ocr", section |-> "OCR", option |-> "OCRTime"]>>

KnownItems == {ITEM_2_CONFIG[i].item : i \in 1..Len(ITEM_2_CONFIG)}

ScanTimeKeys == {<<ITEM_2_CONFIG[i].section, ITEM_2_CONFIG[i].option>> :
                    i \in 1..Len(ITEM_2_CONFIG)}

ConfigOf(item) == CHOOSE c \in {ITEM_2_CONFIG[i] : i \in 1..Len(ITEM_2_CONFIG)} : c.item = item

\* the dict `values` without key k
Without(values, k) == [j \in DOMAIN values \ {k} |-> values[j]]

\* the dict `values` with values[k] = v
With(values, k, v) == [j \in DOMAIN values \cup {k} |-> IF j = k THEN v ELSE values[j]]

\* load() from entry i on: [values |-> self.values afterwards, exc |-> ...]
RECURSIVE scan_times_load(_, _, _)
scan_times_load(cfg, values, i) ==
    IF i > Len(ITEM_2_CONFIG) THEN [values |-> values, exc |-> NoError]
    ELSE LET k == ITEM_2_CONFIG[i].item
             raw == Get(cfg, ITEM_2_CONFIG[i].section, ITEM_2_CONFIG[i].option)
         IN  IF raw = Absent THEN scan_times_load(cfg, Without(values, k), i + 1)
             ELSE IF ~ParseFloat(raw).ok THEN [values |-> values, exc |-> "ValueError"]
             ELSE scan_times_load(cfg, With(values, k, ParseFloat(raw).val), i + 1)

\* the items update() passes to config.set
items_written(values) == DOMAIN values \cap KnownItems

\* update(): the store afterwards
scan_times_update(cfg, values) ==
    [k \in DOMAIN cfg \cup {<<ConfigOf(j).section, ConfigOf(j).option>> :
                              j \in items_written(values)} |->
        IF \E j \in items_written(values) : k = <<ConfigOf(j).section, ConfigOf(j).option>>
        THEN FloatToStr(values[CHOOSE j \in items_written(values) :
                                   k = <<ConfigOf(j).section, ConfigOf(j).option>>])
        ELSE cfg[k]]

\* __getitem__: 60.0 for an item that is not set
scan_times_getitem(values, item) ==
    IF item \in DOMAIN values THEN values[item] ELSE 600

\* item names the application uses; "preview" is not in __ITEM_2_CONFIG
ItemNames == KnownItems \cup {"preview"}

\* scan times (in tenths of a second) the application records: 12.5 and 60.0
Times == {125, 600}

\* texts under a scan-time key: "12.5", "60.0", "7", "abc", or nothing
ScanTimeStored == {FloatToStr(x) : x \in Times} \cup {<<55>>, NotANumber, Absent}

ScanTimesLoad ==
    /\ scan_times' = scan_times_load(config, scan_times, 1).values
    /\ exc' = scan_times_load(config, scan_times, 1).exc
    /\ op' = "scan_times.load"
    /\ UNCHANGED <<config, set_keys, recentVars, sizeVars, calibrationVars,
                   scannerVars>>

ScanTimesUpdate ==
    /\ config' = scan_times_update(config, scan_times)
    /\ set_keys' = set_keys \cup {<<ConfigOf(j).section, ConfigOf(j).option>> :
                                    j \in items_written(scan_times)}
    /\ op' = "scan_times.update"
    /\ exc' = NoError
    /\ UNCHANGED <<scan_times, recentVars, sizeVars, calibrationVars,
                   scannerVars>>

ScanTimesSetItem(item, v) ==
    /\ scan_times' = With(scan_times, item, v)
    /\ op' = "scan_times.setitem"
    /\ exc' = NoError
    /\ UNCHANGED <<config, set_keys, recentVars, sizeVars, calibrationVars,
                   scannerVars>>

InitScanTimes ==
    /\ config \in [ScanTimeKeys -> ScanTimeStored]
    /\ scan_times = << >>
    /\ set_keys = {}
    /\ op = "init"
    /\ exc = NoError
    /\ ConstructedRecent /\ ConstructedSize /\ ConstructedCalibration
    /\ ConstructedScanner

NextScanTimes ==
    \/ ScanTimesLoad
    \/ ScanTimesUpdate
    \/ \E item \in ItemNames, v \in Times : ScanTimesSetItem(item, v)

SpecScanTimes == InitScanTimes /\ [][NextScanTimes]_vars

----------------------------------------------------------------------------
(* get_scanner / _get_scanner *)

\* most devices pyinsane2.get_devices() reports
MaxDevices == 3

\* device names: "x", "y", "v4l:0", and "v4l" (shorter than the marker)
DevNames == {<<120>>, <<121>>, <<118, 52, 108, 58, 48>>, <<118, 52, 108>>}

\* the literal "v4l:" of line 408
V4L_PREFIX == <<118, 52, 108, 58>>

\* device ids found in the Scanner/Device setting
ConfiguredIds == {<<120>>, <<118, 52, 108, 58, 48>>}

\* values of the Scanner/Resolution setting
ConfiguredResolutions == {150, 300}

\* what a device reports as its current resolution
ReportedResolutions == {75, 150}

\* the options _get_scanner looks for in dev.options
ScannerOptions == {"source", "resolution", "mode"}

\* lists of distinct device names, at most MaxDevices long
DeviceLists ==
    UNION {{s \in [1..n -> DevNames] : \A i, j \in 1..n : i # j => s[i] # s[j]} :
           n \in 0..MaxDevices}

\* x.name[:4]
name_prefix(name) == SubSeq(name, 1, Min(4, Len(name)))

\* the list comprehension of lines 406-409 without its condition
all_devices(ds) == ds

\* the list comprehension of lines 406-409
RECURSIVE fallback_devices(_)
fallback_devices(ds) ==
    IF ds = << >> THEN << >>
    ELSE IF name_prefix(Head(ds)) # V4L_PREFIX
         THEN <<Head(ds)>> \o fallback_devices(Tail(ds))
         ELSE fallback_devices(Tail(ds))

\* `resolution` is left at the configured value when the device refuses it
resolution_ignoring_device(configured, has_option, accepted, reported) == configured

\* `resolution` after lines 362-375
applied_resolution(configured, has_option, accepted, reported) ==
    IF ~has_option THEN configured
    ELSE IF accepted THEN configured
    ELSE reported

Step(name, outcome) == <<name, outcome>>

\* _get_scanner raises e: what get_scanner does with it (lines 399-417)
Raise(e) ==
    IF Len(attempts) = 1
    THEN /\ first_exc' = e
         /\ pc' = "enumerate"
         /\ dev' = NoDev
         /\ steps' = << >>
         /\ resolution' = 0
         /\ UNCHANGED result
    ELSE /\ result' = [kind |-> "raise", dev |-> << >>, resolution |-> 0,
                       exc |-> IF e.type = "PyinsaneException" THEN first_exc ELSE e]
         /\ pc' = "done"
         /\ UNCHANGED <<first_exc, dev, steps, resolution>>

\* get_scanner(config, preferred_sources) is called
GetScanner(sources) ==
    /\ pc = "idle"
    /\ preferred_sources' = sources
    /\ attempts' = <<scanner_devid>>
    /\ pc' = "open"
    /\ UNCHANGED <<scanner_devid, scanner_resolution, scanner_source, dev,
                   resolution, steps, first_exc, enumerated, devices, result>>
    /\ UNCHANGED <<config, op, exc, recentVars, sizeVars, calibrationVars, scanTimesVars>>

\* pyinsane2.Scanner(name=devid) and the first use of dev.options
OpenDevice ==
    /\ pc = "open"
    /\ \/ \E options \in SUBSET ScannerOptions, reported \in ReportedResolutions :
            /\ dev' = [name |-> attempts[Len(attempts)], options |-> options,
                       reported |-> IF "resolution" \in options THEN reported ELSE 0]
            /\ pc' = "source"
            /\ UNCHANGED <<first_exc, steps, resolution, result>>
       \/ \E type \in {"KeyError", "PyinsaneException"} :
            Raise([type |-> type, attempt |-> Len(attempts), at |-> "open"])
    /\ UNCHANGED <<scanner_devid, scanner_resolution, scanner_source,
                   preferred_sources, attempts, enumerated, devices>>
    /\ UNCHANGED <<config, op, exc, recentVars, sizeVars, calibrationVars, scanTimesVars>>

\* lines 353-360
SetSource ==
    /\ pc = "source"
    /\ \/ /\ "source" \notin dev.options
          /\ steps' = Append(steps, Step("source", "absent"))
          /\ pc' = "resolution"
          /\ UNCHANGED <<first_exc, dev, resolution, result>>
       \/ /\ "source" \in dev.options
          /\ preferred_sources = << >> /\ scanner_source = ""
          /\ steps' = Append(steps, Step("source", "untouched"))
          /\ pc' = "resolution"
          /\ UNCHANGED <<first_exc, dev, resolution, result>>
       \/ /\ "source" \in dev.options
          /\ preferred_sources # << >> \/ scanner_source # ""
          /\ steps' = Append(steps, Step("source", "set"))
          /\ pc' = "resolution"
          /\ UNCHANGED <<first_exc, dev, resolution, result>>
       \/ /\ "source" \in dev.options
          /\ preferred_sources # << >> \/ scanner_source # ""
          /\ Raise([type |-> "PyinsaneException", attempt |-> Len(attempts),
                    at |-> "source"])
    /\ UNCHANGED <<scanner_devid, scanner_resolution, scanner_source,
                   preferred_sources, attempts, enumerated, devices>>
    /\ UNCHANGED <<config, op, exc, recentVars, sizeVars, calibrationVars, scanTimesVars>>

\* lines 362-375
SetResolution ==
    /\ pc = "resolution"
    /\ \/ /\ "resolution" \notin dev.options
          /\ steps' = Append(steps, Step("resolution", "absent"))
          /\ resolution' = applied_resolution(scanner_resolution, FALSE, FALSE,
                                              dev.reported)
       \/ /\ "resolution" \in dev.options
          /\ \E accepted \in BOOLEAN :
                /\ steps' = Append(steps, Step("resolution",
                                       IF accepted THEN "set" ELSE "rejected"))
                /\ resolution' = applied_resolution(scanner_resolution, TRUE,
                                                    accepted, dev.reported)
    /\ pc' = "mode"
    /\ UNCHANGED <<scanner_devid, scanner_resolution, scanner_source,
                   preferred_sources, attempts, dev, first_exc, enumerated,
                   devices, result>>
    /\ UNCHANGED <<config, op, exc, recentVars, sizeVars, calibrationVars, scanTimesVars>>

\* lines 377-384
SetMode ==
    /\ pc = "mode"
    /\ \/ /\ "mode" \notin dev.options
          /\ steps' = Append(steps, Step("mode", "absent"))
       \/ /\ "mode" \in dev.options
          /\ \E outcome \in {"set", "rejected"} :
                steps' = Append(steps, Step("mode", outcome))
    /\ pc' = "area"
    /\ UNCHANGED <<scanner_devid, scanner_resolution, scanner_source,
                   preferred_sources, attempts, dev, resolution, first_exc,
                   enumerated, devices, result>>
    /\ UNCHANGED <<config, op, exc, recentVars, sizeVars, calibrationVars, scanTimesVars>>

\* lines 386-391, and the return of get_scanner
MaximizeScanArea ==
    /\ pc = "area"
    /\ \E outcome \in {"set", "absent", "rejected"} :
          steps' = Append(steps, Step("area", outcome))
    /\ result' = [kind |-> "return", dev |-> dev.name, resolution |-> resolution,
                  exc |-> NoExc]
    /\ pc' = "done"
    /\ UNCHANGED <<scanner_devid, scanner_resolution, scanner_source,
                   preferred_sources, attempts, dev, resolution, first_exc,
                   enumerated, devices>>
    /\ UNCHANGED <<config, op, exc, recentVars, sizeVars, calibrationVars, scanTimesVars>>

\* lines 403-417 up to the second _get_scanner call
Enumerate ==
    /\ pc = "enumerate"
    /\ \/ /\ enumerated' = "failed"
          /\ devices' = << >>
          /\ result' = [kind |-> "raise", dev |-> << >>, resolution |-> 0,
                        exc |-> first_exc]
          /\ pc' = "done"
          /\ UNCHANGED attempts
       \/ \E ds \in DeviceLists :
            /\ enumerated' = "ok"
            /\ devices' = ds
            /\ IF Len(fallback_devices(ds)) # 1
               THEN /\ result' = [kind |-> "raise", dev |-> << >>, resolution |-> 0,
                                  exc |-> first_exc]
                    /\ pc' = "done"
                    /\ UNCHANGED attempts
               ELSE /\ attempts' = Append(attempts, fallback_devices(ds)[1])
                    /\ pc' = "open"
                    /\ UNCHANGED result
    /\ UNCHANGED <<scanner_devid, scanner_resolution, scanner_source,
                   preferred_sources, dev, resolution, steps, first_exc>>
    /\ UNCHANGED <<config, op, exc, recentVars, sizeVars, calibrationVars, scanTimesVars>>

InitScanner ==
    /\ scanner_devid \in ConfiguredIds
    /\ scanner_resolution \in ConfiguredResolutions
    /\ scanner_source \in {"", "Flatbed"}
    /\ ScannerIdle
    /\ config = << >>
    /\ op = "init"
    /\ exc = NoError
    /\ ConstructedRecent /\ ConstructedSize /\ ConstructedCalibration
    /\ ConstructedScanTimes

NextScanner ==
    \/ \E sources \in {<< >>, <<"ADF", "Feeder">>} : GetScanner(sources)
    \/ OpenDevice
    \/ SetSource
    \/ SetResolution
    \/ SetMode
    \/ MaximizeScanArea
    \/ Enumerate

SpecScanner == InitScanner /\ [][NextScanner]_vars

----------------------------------------------------------------------------
(* Recent List properties *)

Distinct(s) == \A i, j \in 1..Len(s) : i # j => s[i] # s[j]

Last(s, n) == SubSeq(s, Len(s) - n + 1, Len(s))

\* C1: in every state reached by push and load, from any store contents, the
\* Recent List holds at most max_length entries and no entry twice.
C1_BoundedNoDuplicates ==
    Len(recent) <= max_length /\ Distinct(recent)

\* a load that read more indexed entries than the list may hold, and filled it
C1_Witness ==
    /\ op = "recent.load"
    /\ exc = NoError
    /\ \A k \in RecentKeys : config[k] # Absent
    /\ Len(recent) = max_length
    /\ max_length > 1

\* C2: update(store) followed by load(store) on the same store gives back the
\* list that was written, whatever indexed entries the store held before.
C2_RoundTrip ==
    (op = "recent.load" /\ written.done) => (exc = NoError /\ recent = written.value)

\* The round trip of C2 for the stores that held no entry at the index just
\* past the written list (not a claim: the part of C2 the code does satisfy).
RoundTripWithoutStaleEntry ==
    (/\ op = "recent.load"
     /\ written.done
     /\ Get(config, RecentKey(Len(written.value))[1],
            RecentKey(Len(written.value))[2]) = Absent)
    => (exc = NoError /\ recent = written.value)

\* C3: starting from the empty list, after pushing n > max_length pairwise
\* distinct, non-empty, trimmed values the list is the last max_length of them,
\* in push order.
C3_KeepsMostRecent ==
    (/\ Len(hist) > max_length
     /\ Distinct(hist)
     /\ \A i \in 1..Len(hist) : hist[i] # << >> /\ strip(hist[i]) = hist[i])
    => recent = Last(hist, max_length)

\* two evictions have happened on a list of capacity two or more
C3_Witness ==
    /\ max_length > 1
    /\ Len(hist) > max_length + 1
    /\ Distinct(hist)
    /\ \A i \in 1..Len(hist) : hist[i] # << >> /\ strip(hist[i]) = hist[i]
    /\ recent = Last(hist, max_length)

----------------------------------------------------------------------------
(* Settings load properties *)

LoadOps == {"size.load", "calibration.load", "scan_times.load", "recent.load"}

\* C7: load of a Size Pair, Calibration Record, Scan-Time Table or Recent
\* List never propagates an error, for absent and for malformed keys alike;
\* a Size Pair whose width or height is absent or not an integer is reset to
\* the default pair.
C7_LoadNeverRaises ==
    /\ op \in LoadOps => exc = NoError
    /\ (/\ op = "size.load"
        /\ \E k \in SizeKeys : config[k] = Absent \/ ~ParseInt(config[k]).ok)
       => size = default_size

----------------------------------------------------------------------------
(* Calibration Record properties *)

IntegerValued(k) == config[k] = Absent \/ ParseInt(config[k]).ok

Stored(option) == ParseInt(Get(config, "Scanner", option)).val

\* C8: after load() from a store whose calibration keys are integer-valued,
\* the record is None exactly when one of the four coordinate keys is absent;
\* otherwise A.x <= B.x and A.y <= B.y, the x values and the y values are
\* those stored (each axis swapped on its own), and the resolution is the
\* stored one, or 200 when Calibration_Resolution is absent.
C8_CalibrationLoad ==
    (/\ op = "calibration.load"
     /\ \A k \in CoordKeys \cup {ResolutionKey} : IntegerValued(k))
    => /\ exc = NoError
       /\ calibration = None <=> \E k \in CoordKeys : config[k] = Absent
       /\ calibration # None =>
            /\ calibration[2][1][1] <= calibration[2][2][1]
            /\ calibration[2][1][2] <= calibration[2][2][2]
            /\ <<calibration[2][1][1], calibration[2][2][1]>> \in
                 {<<Stored("Calibration_Pt_A_X"), Stored("Calibration_Pt_B_X")>>,
                  <<Stored("Calibration_Pt_B_X"), Stored("Calibration_Pt_A_X")>>}
            /\ <<calibration[2][1][2], calibration[2][2][2]>> \in
                 {<<Stored("Calibration_Pt_A_Y"), Stored("Calibration_Pt_B_Y")>>,
                  <<Stored("Calibration_Pt_B_Y"), Stored("Calibration_Pt_A_Y")>>}
            /\ calibration[1] =
                 IF config[ResolutionKey] = Absent THEN 200
                 ELSE Stored("Calibration_Resolution")

\* a load that swapped the x axis only and took the default resolution
C8_Witness ==
    /\ op = "calibration.load"
    /\ \A k \in CoordKeys : config[k] # Absent /\ ParseInt(config[k]).ok
    /\ config[ResolutionKey] = Absent
    /\ Stored("Calibration_Pt_A_X") > Stored("Calibration_Pt_B_X")
    /\ Stored("Calibration_Pt_A_Y") < Stored("Calibration_Pt_B_Y")
    /\ calibration # None
    /\ calibration[1] = 200

----------------------------------------------------------------------------
(* Scan-Time Table properties *)

StoredTime(item) == Get(config, ConfigOf(item).section, ConfigOf(item).option)

\* item reads back as the store has it: 60.0 for an absent key, the number
\* stored for a key that holds one
ReadsBack(item) ==
    IF StoredTime(item) = Absent THEN scan_times_getitem(scan_times, item) = 600
    ELSE ParseFloat(StoredTime(item)).ok =>
            scan_times_getitem(scan_times, item) = ParseFloat(StoredTime(item)).val

\* C10: after any sequence of load, item assignment and update that ends with
\* load, the lookup of each known phase gives the value stored under its key,
\* and 60.0 when the key is absent, whatever was cached before; update writes
\* only the three mapped keys and never raises.
C10_LoadReflectsStore ==
    /\ op = "scan_times.load" => \A item \in KnownItems : ReadsBack(item)
    /\ set_keys \subseteq ScanTimeKeys
    /\ op = "scan_times.update" => exc = NoError

\* C10 for the stores whose scan-time keys all hold numbers (not a claim: the
\* part of C10 that does not meet the ValueError of C7).
LoadReflectsNumericStore ==
    (/\ op = "scan_times.load"
     /\ \A k \in ScanTimeKeys : config[k] = Absent \/ ParseFloat(config[k]).ok)
    => (exc = NoError /\ \A item \in KnownItems : ReadsBack(item))

----------------------------------------------------------------------------
(* get_scanner properties *)

SubSteps == <<"source", "resolution", "mode", "area">>

HasV4lPrefix(name) ==
    Len(name) >= 4 /\ name[1] = 118 /\ name[2] = 52 /\ name[3] = 108 /\ name[4] = 58

\* positions in the enumeration of the devices that are not "v4l:" devices
Candidates == {i \in 1..Len(devices) : ~HasV4lPrefix(devices[i])}

Outcome(name) ==
    IF \E i \in 1..Len(steps) : steps[i][1] = name
    THEN steps[CHOOSE i \in 1..Len(steps) : steps[i][1] = name][2]
    ELSE "not attempted"

\* C4: whenever get_scanner raises, the error is the failure of the first
\* configuration attempt, never one produced by the fallback (enumeration or
\* second attempt, whatever its type).
C4_OriginalErrorSurfaces ==
    result.kind = "raise" => (result.exc = first_exc /\ result.exc.attempt = 1)

\* C5: at most two configuration attempts are made; a second one is made
\* exactly when the first failed and the enumeration holds exactly one device
\* without the "v4l:" prefix, and it is made against that device; when it
\* succeeds the caller gets that device and the resolution applied to it.
C5_SingleFallback ==
    /\ Len(attempts) <= 2
    /\ Len(attempts) = 2 =>
          /\ first_exc.attempt = 1
          /\ enumerated = "ok"
          /\ ~HasV4lPrefix(attempts[2])
          /\ Cardinality(Candidates) = 1
          /\ \A i \in Candidates : devices[i] = attempts[2]
    /\ (enumerated = "ok" /\ Cardinality(Candidates) = 1) => Len(attempts) = 2
    /\ (result.kind = "return" /\ Len(attempts) = 2) =>
          /\ result.dev = attempts[2]
          /\ dev.name = attempts[2]
          /\ result.resolution = resolution

\* the fallback device, enumerated together with "v4l:" devices, was configured
\* and returned
C5_Witness ==
    /\ result.kind = "return"
    /\ Len(attempts) = 2
    /\ Len(devices) > 1
    /\ result.dev = attempts[2]
    /\ attempts[2] # attempts[1]

\* C6: the resolution returned with the device is the configured one when the
\* device has no 'resolution' option or accepts the set, and the one the device
\* reports when it has the option and rejects the set.
C6_ReturnedResolution ==
    result.kind = "return" =>
        /\ Outcome("resolution") \in {"absent", "set"} =>
              result.resolution = scanner_resolution
        /\ Outcome("resolution") = "rejected" => result.resolution = dev.reported

\* configured 300, set rejected, device reports 150: 150 is returned
C6_Witness ==
    /\ result.kind = "return"
    /\ scanner_resolution = 300
    /\ Outcome("resolution") = "rejected"
    /\ dev.reported = 150
    /\ result.resolution = 150

\* C9: no sub-step of the device configuration (source, resolution, mode,
\* scan area) makes it fail, whether the capability is absent or the driver
\* rejects the value: no error comes from a sub-step, none starts the fallback
\* discovery, and a completed configuration has attempted all four in order.
C9_SubStepsBestEffort ==
    /\ \A i \in 1..Len(SubSteps) :
          first_exc.at # SubSteps[i] /\ result.exc.at # SubSteps[i]
    /\ result.kind = "return" => [i \in 1..Len(steps) |-> steps[i][1]] = SubSteps

\* C9 without the source sub-step (not a claim: the sub-steps the code does
\* guard), with a rejected resolution, mode and scan area
GuardedSubStepsBestEffort ==
    /\ \A i \in 2..Len(SubSteps) :
          first_exc.at # SubSteps[i] /\ result.exc.at # SubSteps[i]
    /\ result.kind = "return" => [i \in 1..Len(steps) |-> steps[i][1]] = SubSteps

====
